---------------------------- MODULE Spec2Model ----------------------------
(***************************************************************************)
(* GoHighLevel -> Velocify webhook relay (src/server.js).                  *)
(*                                                                         *)
(* JavaScript values are tagged records [t, v]:                            *)
(*   "undef" / "null"      v = 0                                           *)
(*   "str"                 v = sequence of one-character strings           *)
(*   "num"                 v = natural number                              *)
(*   "bool"                v = BOOLEAN                                     *)
(*   "obj" / "arr"         v = function from own property names to values  *)
(*                         (an array's elements sit under "0", "1", ...)   *)
(* Property names are TLA+ strings; string VALUES are character sequences  *)
(* so that toLowerCase, includes and trim are computed, not assumed.       *)
(***************************************************************************)
EXTENDS Integers, Sequences, FiniteSets

----------------------------------------------------------------------------
(* JavaScript value layer *)

Undef == [t |-> "undef", v |-> 0]
Null == [t |-> "null", v |-> 0]
Str(s) == [t |-> "str", v |-> s]
Num(n) == [t |-> "num", v |-> n]
Bool(b) == [t |-> "bool", v |-> b]
Obj(f) == [t |-> "obj", v |-> f]
Arr(f) == [t |-> "arr", v |-> f]

EmptyStr == Str(<< >>)
NoProps == [k \in {} |-> Undef]
EmptyObj == Obj(NoProps)

\* ToBoolean: what `||`, `&&`, `!` and `if (x)` test
Truthy(x) ==
    CASE x.t = "undef" -> FALSE
      [] x.t = "null" -> FALSE
      [] x.t = "str" -> Len(x.v) > 0
      [] x.t = "num" -> x.v # 0
      [] x.t = "bool" -> x.v
      [] OTHER -> TRUE

\* a || b
Or(a, b) == IF Truthy(a) THEN a ELSE b

IsObject(x) == x.t \in {"obj", "arr"}

\* x[k] / x.k for a non-nullish x: own property, else undefined
\* (none of the probed names is inherited from a prototype, except toString,
\* which ToStringThrows below treats separately)
Get(x, k) == IF IsObject(x) /\ k \in DOMAIN x.v THEN x.v[k] ELSE Undef

\* x.k = val in sloppy mode: sets an own property on an object or array,
\* silently does nothing on a primitive
Put(x, k, val) ==
    IF IsObject(x)
    THEN [x EXCEPT !.v = [j \in (DOMAIN x.v) \cup {k} |-> IF j = k THEN val ELSE x.v[j]]]
    ELSE x

\* x === Str(s) for a string constant s
StrictEqStr(x, s) == x.t = "str" /\ x.v = s

Uppers == <<"A","B","C","D","E","F","G","H","I","J","K","L","M","N","O","P","Q","R","S","T","U","V","W","X","Y","Z">>
Lowers == <<"a","b","c","d","e","f","g","h","i","j","k","l","m","n","o","p","q","r","s","t","u","v","w","x","y","z">>

LowerChar(c) ==
    IF \E i \in 1..Len(Uppers) : Uppers[i] = c
    THEN Lowers[CHOOSE i \in 1..Len(Uppers) : Uppers[i] = c]
    ELSE c

\* String.prototype.toLowerCase on a character sequence
toLowerCase(s) == [i \in 1..Len(s) |-> LowerChar(s[i])]

\* String.prototype.includes: substring search
includes(s, sub) ==
    \E i \in 0..(Len(s) - Len(sub)) :
        \A j \in 1..Len(sub) : s[i + j] = sub[j]

\* Array.prototype.includes for a string constant: element-wise ===
arrayIncludes(a, sub) == \E k \in DOMAIN a.v : StrictEqStr(a.v[k], sub)

IsSpace(c) == c \in {" ", "\t", "\n"}

\* String.prototype.trim() === ''
TrimIsEmpty(s) == \A i \in 1..Len(s) : IsSpace(s[i])

----------------------------------------------------------------------------
(* Configuration constants of the program *)

GHL_WEBHOOK_SECRET == Str(<<"y","o","u","r","_","g","h","l","_","w","e","b","h","o","o","k","_","s","e","c","r","e","t">>)

\* '35aVCd7RUqgNDAZ3aDC1'
FormId1 == <<"3","5","a","V","C","d","7","R","U","q","g","N","D","A","Z","3","a","D","C","1">>
\* '3k9CDG63EryRBKqLmmqI'
FormId2 == <<"3","k","9","C","D","G","6","3","E","r","y","R","B","K","q","L","m","m","q","I">>
universityBankFormIds == <<FormId1, FormId2>>

\* 'mwppqiCfdkvcu0dJroWh'
universityBankLocationId == <<"m","w","p","p","q","i","C","f","d","k","v","c","u","0","d","J","r","o","W","h">>

\* 'complete this form to get started'
PhraseGetStarted == <<"c","o","m","p","l","e","t","e"," ","t","h","i","s"," ","f","o","r","m"," ","t","o"," ","g","e","t"," ","s","t","a","r","t","e","d">>
\* 'university bank'
PhraseUniversityBank == <<"u","n","i","v","e","r","s","i","t","y"," ","b","a","n","k">>
\* 'schedule a meeting'
PhraseScheduleMeeting == <<"s","c","h","e","d","u","l","e"," ","a"," ","m","e","e","t","i","n","g">>
\* 'schedule a meeting with university bank'
PhraseScheduleWithBank == <<"s","c","h","e","d","u","l","e"," ","a"," ","m","e","e","t","i","n","g"," ","w","i","t","h"," ","u","n","i","v","e","r","s","i","t","y"," ","b","a","n","k">>

----------------------------------------------------------------------------
(* Form Identifier: isUniversityBankForm(formName, formId, payload)        *)
(* The result is "true", "false", or the message of the TypeError raised   *)
(* by a method call on a value that has no such method.                    *)

\* universityBankFormIds.includes(formId): element-wise ===
FormIdListed(formId) ==
    \E i \in 1..Len(universityBankFormIds) : StrictEqStr(formId, universityBankFormIds[i])

\* primary check: if (formId && universityBankFormIds.includes(formId))
FormIdMatch(formId) == Truthy(formId) /\ FormIdListed(formId)

\* secondary check on formName: "true", "next" (fall through) or a TypeError message
FormNameCheck(formName) ==
    IF ~Truthy(formName) THEN "next"
    ELSE IF formName.t # "str" THEN "formName.toLowerCase is not a function"
    ELSE LET lowerFormName == toLowerCase(formName.v) IN
         IF \/ includes(lowerFormName, PhraseGetStarted)
            \/ includes(lowerFormName, PhraseUniversityBank)
            \/ includes(lowerFormName, PhraseScheduleMeeting)
         THEN "true" ELSE "next"

\* tertiary check on payload.form_title
FormTitleCheck(payload) ==
    LET title == Get(payload, "form_title") IN
    IF ~Truthy(title) THEN "next"
    ELSE IF title.t # "str" THEN "payload.form_title.toLowerCase is not a function"
    ELSE LET lowerTitle == toLowerCase(title.v) IN
         IF \/ includes(lowerTitle, PhraseUniversityBank)
            \/ includes(lowerTitle, PhraseScheduleWithBank)
         THEN "true" ELSE "next"

\* page URL check: payload.page_url.includes(<form id>)
PageUrlCheck(payload) ==
    LET url == Get(payload, "page_url") IN
    IF ~Truthy(url) THEN "next"
    ELSE IF url.t = "str"
         THEN IF includes(url.v, FormId1) \/ includes(url.v, FormId2)
              THEN "true" ELSE "next"
    ELSE IF url.t = "arr"
         THEN IF arrayIncludes(url, FormId1) \/ arrayIncludes(url, FormId2)
              THEN "true" ELSE "next"
    ELSE "payload.page_url.includes is not a function"

\* location check: location_id === id || locationId === id
LocationCheck(payload) ==
    \/ StrictEqStr(Get(payload, "location_id"), universityBankLocationId)
    \/ StrictEqStr(Get(payload, "locationId"), universityBankLocationId)

\* variant: the form name is examined before the form id
isUniversityBankFormNameFirst(formName, formId, payload) ==
    IF FormNameCheck(formName) # "next" THEN FormNameCheck(formName)
    ELSE IF FormIdMatch(formId) THEN "true"
    ELSE IF FormTitleCheck(payload) # "next" THEN FormTitleCheck(payload)
    ELSE IF PageUrlCheck(payload) # "next" THEN PageUrlCheck(payload)
    ELSE IF LocationCheck(payload) THEN "true"
    ELSE "false"

\* variant: unmatched forms are accepted as a fallback
isUniversityBankFormAcceptAll(formName, formId, payload) ==
    IF FormIdMatch(formId) THEN "true"
    ELSE IF FormNameCheck(formName) # "next" THEN FormNameCheck(formName)
    ELSE IF FormTitleCheck(payload) # "next" THEN FormTitleCheck(payload)
    ELSE IF PageUrlCheck(payload) # "next" THEN PageUrlCheck(payload)
    ELSE "true"

isUniversityBankForm(formName, formId, payload) ==
    IF FormIdMatch(formId) THEN "true"
    ELSE IF FormNameCheck(formName) # "next" THEN FormNameCheck(formName)
    ELSE IF FormTitleCheck(payload) # "next" THEN FormTitleCheck(payload)
    ELSE IF PageUrlCheck(payload) # "next" THEN PageUrlCheck(payload)
    ELSE IF LocationCheck(payload) THEN "true"
    ELSE "false"

\* did the call return (rather than throw)?
Returned(r) == r \in {"true", "false"}

----------------------------------------------------------------------------
(* Field extraction: extractFormData(payload)                              *)

\* 'form_submit'
form_submit == <<"f","o","r","m","_","s","u","b","m","i","t">>

\* which branch of the if / else-if chain is taken
extractBranch(payload) ==
    IF StrictEqStr(Get(payload, "type"), form_submit) /\ Truthy(Get(payload, "form_data"))
    THEN "form_data"
    ELSE IF Truthy(Get(payload, "contact")) THEN "contact"
    ELSE IF Truthy(Get(payload, "customFields")) THEN "customFields"
    ELSE "payload"

\* the returned formData: the chosen bundle, with the properties assigned to it
extractFormData(payload) ==
    CASE extractBranch(payload) = "form_data" ->
            Put(Put(Get(payload, "form_data"), "contactId", Get(payload, "contact_id")),
                "locationId", Get(payload, "location_id"))
      [] extractBranch(payload) = "contact" ->
            Put(Get(payload, "contact"), "contactId", Get(Get(payload, "contact"), "id"))
      [] extractBranch(payload) = "customFields" ->
            Put(Get(payload, "customFields"), "contactId", Get(payload, "contactId"))
      [] OTHER -> payload

\* req.body after extractFormData: formData aliases the nested bundle, so the
\* assignments above are visible through the payload as well
bodyAfterExtract(payload) ==
    IF extractBranch(payload) = "payload" THEN payload
    ELSE Put(payload, extractBranch(payload), extractFormData(payload))

----------------------------------------------------------------------------
(* transformToVelocifyFormat(formData)                                     *)

\* 'Replace Your University - GoHighLevel'
LeadSourceText == <<"R","e","p","l","a","c","e"," ","Y","o","u","r"," ","U","n","i","v","e","r","s","i","t","y"," ","-"," ","G","o","H","i","g","h","L","e","v","e","l">>
\* 'Replace Your University - Get Started Form'
CampaignText == <<"R","e","p","l","a","c","e"," ","Y","o","u","r"," ","U","n","i","v","e","r","s","i","t","y"," ","-"," ","G","e","t"," ","S","t","a","r","t","e","d"," ","F","o","r","m">>
\* 'Lead from Replace Your University - Get Started Form. Submitted via GoHighLevel integration.'
CommentsText == <<"L","e","a","d"," ","f","r","o","m"," ","R","e","p","l","a","c","e"," ","Y","o","u","r"," ","U","n","i","v","e","r","s","i","t","y"," ","-"," ","G","e","t"," ","S","t","a","r","t","e","d"," ","F","o","r","m","."," ","S","u","b","m","i","t","t","e","d"," ","v","i","a"," ","G","o","H","i","g","h","L","e","v","e","l"," ","i","n","t","e","g","r","a","t","i","o","n",".">>
\* 'RYU Website Form'
SourceText == <<"R","Y","U"," ","W","e","b","s","i","t","e"," ","F","o","r","m">>
\* 'GoHighLevel Integration'
MediumText == <<"G","o","H","i","g","h","L","e","v","e","l"," ","I","n","t","e","g","r","a","t","i","o","n">>
\* 'Complete This Form To Get Started'
ContentText == <<"C","o","m","p","l","e","t","e"," ","T","h","i","s"," ","F","o","r","m"," ","T","o"," ","G","e","t"," ","S","t","a","r","t","e","d">>
\* 'Replace Your University (RYU)'
ClientIdentifierText == <<"R","e","p","l","a","c","e"," ","Y","o","u","r"," ","U","n","i","v","e","r","s","i","t","y"," ","(","R","Y","U",")">>
\* 'RYU - Get Started Form'
FormNameText == <<"R","Y","U"," ","-"," ","G","e","t"," ","S","t","a","r","t","e","d"," ","F","o","r","m">>
\* 'Replace Your University Website'
OriginalSourceText == <<"R","e","p","l","a","c","e"," ","Y","o","u","r"," ","U","n","i","v","e","r","s","i","t","y"," ","W","e","b","s","i","t","e">>

\* property order of the object literal (the order Object.keys walks)
velocifyKeys ==
    <<"FirstName", "LastName", "Email", "Phone", "LeadSource", "Campaign", "Comments",
      "Source", "Medium", "Content", "SubmissionDate", "ClientIdentifier", "FormName",
      "GHLContactId", "OriginalSource">>

\* the object literal; `now` is new Date().toISOString()
velocifyLiteral(formData, now) ==
    [ FirstName |-> Or(Get(formData, "First Name"),
                    Or(Get(formData, "firstName"),
                    Or(Get(formData, "first_name"), EmptyStr))),
      LastName |-> Or(Get(formData, "Last Name"),
                   Or(Get(formData, "lastName"),
                   Or(Get(formData, "last_name"), EmptyStr))),
      Email |-> Or(Get(formData, "Email"), Or(Get(formData, "email"), EmptyStr)),
      Phone |-> Or(Get(formData, "Phone"), Or(Get(formData, "phone"), EmptyStr)),
      LeadSource |-> Str(LeadSourceText),
      Campaign |-> Str(CampaignText),
      Comments |-> Str(CommentsText),
      Source |-> Str(SourceText),
      Medium |-> Str(MediumText),
      Content |-> Str(ContentText),
      SubmissionDate |-> Str(now),
      ClientIdentifier |-> Str(ClientIdentifierText),
      FormName |-> Str(FormNameText),
      GHLContactId |-> Or(Get(formData, "contactId"),
                       Or(Get(formData, "contact_id"), EmptyStr)),
      OriginalSource |-> Str(OriginalSourceText) ]

\* "Handle alternative field naming": the four if (!x) x = ... statements
velocifyAlternatives(formData, p) ==
    [p EXCEPT
       !.FirstName = IF ~Truthy(@)
                     THEN Or(Get(formData, "firstname"),
                          Or(Get(formData, "first-name"),
                          Or(Get(formData, "fname"), EmptyStr)))
                     ELSE @,
       !.LastName = IF ~Truthy(@)
                    THEN Or(Get(formData, "lastname"),
                         Or(Get(formData, "last-name"),
                         Or(Get(formData, "lname"), EmptyStr)))
                    ELSE @,
       !.Email = IF ~Truthy(@)
                 THEN Or(Get(formData, "emailAddress"),
                      Or(Get(formData, "email-address"), EmptyStr))
                 ELSE @,
       !.Phone = IF ~Truthy(@)
                 THEN Or(Get(formData, "phoneNumber"),
                      Or(Get(formData, "phone-number"),
                      Or(Get(formData, "mobile"), EmptyStr)))
                 ELSE @ ]

\* variant: the clean-up also deletes the keys whose value is blank
velocifyCleanupDropsEmpty(p) ==
    LET kept == {k \in DOMAIN p :
                   /\ p[k].t \notin {"null", "undef"}
                   /\ ~(p[k].t = "str" /\ TrimIsEmpty(p[k].v))} IN
    [k \in kept |-> p[k]]

\* "Clean up empty values": delete null / undefined, blank strings become ''
velocifyCleanup(p) ==
    LET kept == {k \in DOMAIN p : p[k].t \notin {"null", "undef"}} IN
    [k \in kept |-> IF p[k].t = "str" /\ TrimIsEmpty(p[k].v) THEN EmptyStr ELSE p[k]]

transformToVelocifyFormat(formData, now) ==
    velocifyCleanup(velocifyAlternatives(formData, velocifyLiteral(formData, now)))

----------------------------------------------------------------------------
(* sendToVelocify(payload): the form body it builds before the POST        *)

Digits == <<"0","1","2","3","4","5","6","7","8","9">>

\* String(n) for a natural number
RECURSIVE NumToString(_)
NumToString(n) ==
    IF n < 10 THEN <<Digits[n + 1]>>
    ELSE NumToString(n \div 10) \o <<Digits[(n % 10) + 1]>>

\* index keys of an array, in order
IndexKeys == <<"0", "1", "2", "3">>
ArrLength(a) == Cardinality({i \in 1..Len(IndexKeys) : IndexKeys[i] \in DOMAIN a.v})

\* '[object Object]'
ObjectObjectText == <<"[","o","b","j","e","c","t"," ","O","b","j","e","c","t","]">>

\* does the string conversion of x raise "Cannot convert object to primitive
\* value"?  An own property named toString (never callable in a parsed body)
\* shadows Object.prototype.toString; Array.prototype.join converts elements.
RECURSIVE ToStringThrows(_)
ToStringThrows(x) ==
    CASE x.t = "obj" -> "toString" \in DOMAIN x.v
      [] x.t = "arr" -> \E i \in 1..ArrLength(x) : ToStringThrows(x.v[IndexKeys[i]])
      [] OTHER -> FALSE

RECURSIVE JoinFrom(_, _)
RECURSIVE toUSVString(_)
\* the string URLSearchParams.append stores for a value (when it does not throw)
toUSVString(x) ==
    CASE x.t = "str" -> x.v
      [] x.t = "num" -> NumToString(x.v)
      [] x.t = "bool" -> IF x.v THEN <<"t","r","u","e">> ELSE <<"f","a","l","s","e">>
      [] x.t = "null" -> <<"n","u","l","l">>
      [] x.t = "undef" -> <<"u","n","d","e","f","i","n","e","d">>
      [] x.t = "obj" -> ObjectObjectText
      [] x.t = "arr" -> JoinFrom(x, 1)

\* Array.prototype.join(','): null and undefined elements give ''
JoinFrom(a, i) ==
    IF i > ArrLength(a) THEN << >>
    ELSE LET e == a.v[IndexKeys[i]]
             s == IF e.t \in {"null", "undef"} THEN << >> ELSE toUSVString(e)
         IN IF i = ArrLength(a) THEN s ELSE s \o <<",">> \o JoinFrom(a, i + 1)

\* keys of the payload in Object.keys order
payloadKeys(payload) == SelectSeq(velocifyKeys, LAMBDA k : k \in DOMAIN payload)

\* the keys whose value is appended: neither null nor undefined
appendedKeys(payload) ==
    SelectSeq(payloadKeys(payload), LAMBDA k : payload[k].t \notin {"null", "undef"})

\* formData.append(key, payload[key]) throws for some key
appendThrows(payload) ==
    \E i \in 1..Len(appendedKeys(payload)) : ToStringThrows(payload[appendedKeys(payload)[i]])

\* the URLSearchParams entries handed to axios.post
formEntries(payload) ==
    [i \in 1..Len(appendedKeys(payload)) |->
        [name |-> appendedKeys(payload)[i],
         value |-> toUSVString(payload[appendedKeys(payload)[i]])]]

\* timeout: 30000
AxiosTimeoutMs == 30000

----------------------------------------------------------------------------
(* Signature header                                                        *)
(* The value of req.headers['x-signature'] is "absent", "empty" (the       *)
(* header is sent with no value) or "hex": the hex HMAC-SHA256, under      *)
(* `key`, of JSON.stringify(of).  Digests are symbolic: two of them are    *)
(* equal exactly when key and serialized body are (no collision).          *)

NoHeader == [kind |-> "absent", key |-> EmptyStr, of |-> EmptyObj]
EmptyHeader == [kind |-> "empty", key |-> EmptyStr, of |-> EmptyObj]

\* crypto.createHmac('sha256', key).update(JSON.stringify(body)).digest('hex')
hmacHex(key, body) == [kind |-> "hex", key |-> key, of |-> body]

expectedSignature(body) == hmacHex(GHL_WEBHOOK_SECRET, body)

\* req.headers['x-signature'] as a condition: undefined and '' are falsy
headerTruthy(sig) == sig.kind = "hex"

\* if (GHL_WEBHOOK_SECRET && req.headers['x-signature']) { if (signature !== expectedSignature)
signatureRejected(body, sig) ==
    /\ Truthy(GHL_WEBHOOK_SECRET)
    /\ headerTruthy(sig)
    /\ sig # expectedSignature(body)

----------------------------------------------------------------------------
(* Responses: res.status(s).json(j).  A field the handler does not set is  *)
(* Absent (velocifyId: Undef).                                             *)

Absent == "<absent>"
NoJson == [success |-> Absent, message |-> Absent, error |-> Absent, velocifyId |-> Undef]
NoResponse == [sent |-> 0, status |-> 0, json |-> NoJson]

respond(status, json) == [sent |-> 1, status |-> status, json |-> json]

notTargetedResponse ==
    respond(200, [NoJson EXCEPT !.message = "Form not targeted for University Bank"])
invalidSignatureResponse ==
    respond(401, [NoJson EXCEPT !.error = "Invalid signature"])
invalidFormDataResponse ==
    respond(400, [NoJson EXCEPT !.error = "Invalid form data"])
successResponse(velocifyId) ==
    respond(200, [NoJson EXCEPT !.success = "true",
                                !.message = "Lead successfully sent to Velocify",
                                !.velocifyId = velocifyId])
\* the catch block of the handler
errorResponse(message) ==
    respond(500, [NoJson EXCEPT !.success = "false", !.error = message])

----------------------------------------------------------------------------
(* The handler of POST /webhook/ghl-to-velocify up to its await            *)

\* req.body.form_name || req.body.formName || ''
formNameOf(body) == Or(Get(body, "form_name"), Or(Get(body, "formName"), EmptyStr))
\* req.body.form_id || req.body.formId || ''
formIdOf(body) == Or(Get(body, "form_id"), Or(Get(body, "formId"), EmptyStr))

\* the Form Identifier as the handler calls it
identify(body) == isUniversityBankForm(formNameOf(body), formIdOf(body), body)

\* state of a request that has not reached extraction
NotExtracted(body, ident, response) ==
    [pc |-> "done", res |-> response, ident |-> ident, body |-> body,
     formData |-> Undef, velocifyPayload |-> NoProps,
     sendCalls |-> 0, posts |-> 0, outbound |-> << >>]

\* sendToVelocify(velocifyPayload) up to the await of axios.post: the POST is
\* issued, unless building the form body throws (rethrown to the handler)
sendStep(body, ident, formData, velocifyPayload) ==
    IF appendThrows(velocifyPayload)
    THEN [pc |-> "done", res |-> errorResponse("Cannot convert object to primitive value"),
          ident |-> ident, body |-> body,
          formData |-> formData, velocifyPayload |-> velocifyPayload,
          sendCalls |-> 1, posts |-> 0, outbound |-> << >>]
    ELSE [pc |-> "awaiting", res |-> NoResponse,
          ident |-> ident, body |-> body,
          formData |-> formData, velocifyPayload |-> velocifyPayload,
          sendCalls |-> 1, posts |-> 1, outbound |-> formEntries(velocifyPayload)]

\* extraction, the formData check, transformation and the call of sendToVelocify
forwardStep(body, ident, now) ==
    LET formData == extractFormData(body) IN
    IF ~Truthy(formData)
    THEN NotExtracted(bodyAfterExtract(body), ident, invalidFormDataResponse)
    ELSE sendStep(bodyAfterExtract(body), ident, formData,
                  transformToVelocifyFormat(formData, now))

\* variant: the Form Identifier is called outside the try block, so what it
\* throws rejects the async handler and the request is left without an answer
webhookHandlerUncaught(body, sig, now) ==
    LET ident == identify(body) IN
    IF ~Returned(ident)
    THEN [pc |-> "faulted", res |-> NoResponse, ident |-> ident, body |-> body,
          formData |-> Undef, velocifyPayload |-> NoProps,
          sendCalls |-> 0, posts |-> 0, outbound |-> << >>]
    ELSE IF ident = "false" THEN NotExtracted(body, ident, notTargetedResponse)
    ELSE IF signatureRejected(body, sig)
         THEN NotExtracted(body, ident, invalidSignatureResponse)
    ELSE forwardStep(body, ident, now)

\* variant: the handler without the "Skip if it's not the right form" return
webhookHandlerUnfiltered(body, sig, now) ==
    LET ident == identify(body) IN
    IF ~Returned(ident) THEN NotExtracted(body, ident, errorResponse(ident))
    ELSE IF signatureRejected(body, sig)
         THEN NotExtracted(body, ident, invalidSignatureResponse)
    ELSE forwardStep(body, ident, now)

webhookHandler(body, sig, now) ==
    LET ident == identify(body) IN
    IF ~Returned(ident) THEN NotExtracted(body, ident, errorResponse(ident))
    ELSE IF ident = "false" THEN NotExtracted(body, ident, notTargetedResponse)
    ELSE IF signatureRejected(body, sig)
         THEN NotExtracted(body, ident, invalidSignatureResponse)
    ELSE forwardStep(body, ident, now)

\* 'N/A'
NotAvailableText == <<"N","/","A">>

\* the handler after the await resolved with response.data = data
resolvedResponse(data) ==
    IF data.t \in {"null", "undef"}
    THEN errorResponse("Cannot read properties of null (reading 'LeadId')")
    ELSE successResponse(Or(Get(data, "LeadId"), Or(Get(data, "id"), Str(NotAvailableText))))

\* variant: the failure is logged and the request answered as a success
rejectedResponseSwallowed(error) == successResponse(Str(NotAvailableText))

\* the handler after sendToVelocify rethrew the error of axios.post
rejectedResponse(error) == errorResponse(error.message)

----------------------------------------------------------------------------
(* Inputs: request bodies, signature headers, clock readings and           *)
(* downstream outcomes the handler is exercised with                       *)

\* 'abc123'
OtherFormId == <<"a","b","c","1","2","3">>
\* 'loc-other'
OtherLocationId == <<"l","o","c","-","o","t","h","e","r">>
\* 'University Bank Intake'
NameWithMarker == <<"U","n","i","v","e","r","s","i","t","y"," ","B","a","n","k"," ","I","n","t","a","k","e">>
\* 'Please SCHEDULE A MEETING'
NameScheduling == <<"P","l","e","a","s","e"," ","S","C","H","E","D","U","L","E"," ","A"," ","M","E","E","T","I","N","G">>
\* 'Complete This Form To Get Started'
NameGetStarted == <<"C","o","m","p","l","e","t","e"," ","T","h","i","s"," ","F","o","r","m"," ","T","o"," ","G","e","t"," ","S","t","a","r","t","e","d">>
\* 'Contact Us'
NameNoMarker == <<"C","o","n","t","a","c","t"," ","U","s">>
\* 'Talk to UNIVERSITY BANK'
TitleWithMarker == <<"T","a","l","k"," ","t","o"," ","U","N","I","V","E","R","S","I","T","Y"," ","B","A","N","K">>
\* 'Schedule a Meeting'
TitleNoMarker == <<"S","c","h","e","d","u","l","e"," ","a"," ","M","e","e","t","i","n","g">>
\* 'https://x.io/f/3k9CDG63EryRBKqLmmqI?a=1'
UrlWithFormId == <<"h","t","t","p","s",":","/","/","x",".","i","o","/","f","/","3","k","9","C","D","G","6","3","E","r","y","R","B","K","q","L","m","m","q","I","?","a","=","1">>
\* 'https://x.io/home'
UrlNoFormId == <<"h","t","t","p","s",":","/","/","x",".","i","o","/","h","o","m","e">>
\* 'Jane'
Jane == <<"J","a","n","e">>
\* 'Ann'
Ann == <<"A","n","n">>
\* 'Nina'
Nina == <<"N","i","n","a">>
\* 'Doe'
Doe == <<"D","o","e">>
\* 'j@x.co'
Mail == <<"j","@","x",".","c","o">>
\* 'n@x.co'
NinaMail == <<"n","@","x",".","c","o">>
\* '555'
Tel == <<"5","5","5">>
\* '  '
Blank == <<" "," ">>
\* 'c1'
ContactRef == <<"c","1">>
\* 'L-9'
LeadRef == <<"L","-","9">>
\* '<Response/>'
XmlBody == <<"<","R","e","s","p","o","n","s","e","/",">">>
\* '2025-01-01T00:00:00.000Z'
Time0 == <<"2","0","2","5","-","0","1","-","0","1","T","0","0",":","0","0",":","0","0",".","0","0","0","Z">>
\* '2025-01-01T00:00:30.000Z'
Time1 == <<"2","0","2","5","-","0","1","-","0","1","T","0","0",":","0","0",":","3","0",".","0","0","0","Z">>

\* o with property k set to val, or o itself when val is undefined (k absent)
With(o, k, val) == IF val.t = "undef" THEN o ELSE Put(o, k, val)

\* a one-element array
Arr1(x) == Arr([k \in {"0"} |-> x])

\* bodies that vary everything the Form Identifier reads
IdentifierBodies ==
    { With(With(With(With(With(With(EmptyObj,
          "form_id", fid), "formId", fid2), "form_name", name), "form_title", title),
          "page_url", url), "location_id", loc) :
        fid \in {Undef, Str(FormId1), Str(OtherFormId), Num(7)},
        fid2 \in {Undef},
        name \in {Undef, Str(NameWithMarker), Str(NameNoMarker), Num(5)},
        title \in {Undef, Str(TitleWithMarker), Str(TitleNoMarker), EmptyObj},
        url \in {Undef, Str(UrlWithFormId), Str(UrlNoFormId), Arr1(Str(FormId1)), Num(1)},
        loc \in {Undef, Str(universityBankLocationId), Str(OtherLocationId)} }

\* the camelCase spellings of the identifying keys, and the other marker phrases
AlternateKeyBodies ==
    { With(With(With(With(With(EmptyObj,
          "form_id", fid), "formId", fid2), "formName", name), "form_title", title),
          "locationId", loc) :
        fid \in {Undef, Str(OtherFormId), EmptyStr},
        fid2 \in {Undef, Str(FormId2), Str(OtherFormId)},
        name \in {Undef, Str(NameScheduling), Str(NameGetStarted), Str(NameNoMarker), Bool(TRUE)},
        title \in {Undef, Num(3)},
        loc \in {Undef, Str(universityBankLocationId), Str(OtherLocationId), Null} }

\* a body the Form Identifier accepts by form id
Targeted == Put(EmptyObj, "form_id", Str(FormId1))

FirstNameKeys == <<"First Name", "firstName", "first_name", "firstname", "first-name", "fname">>
LastNameKeys == <<"Last Name", "lastName", "last_name", "lastname", "last-name", "lname">>
EmailKeys == <<"Email", "email", "emailAddress", "email-address">>
PhoneKeys == <<"Phone", "phone", "phoneNumber", "phone-number", "mobile">>
Range(q) == {q[i] : i \in 1..Len(q)}
LeadKeys == Range(FirstNameKeys) \cup Range(LastNameKeys) \cup Range(EmailKeys) \cup Range(PhoneKeys)

\* values of every JSON type under a probed key
LeadValues ==
    { Str(Jane), Str(Blank), EmptyStr, Num(42), Num(0), Bool(TRUE), Bool(FALSE), Null,
      EmptyObj, Obj([toString |-> Num(1)]), Arr([k \in {"0", "1"} |-> IF k = "0" THEN Str(Ann) ELSE Num(7)]) }

\* targeted bodies with one lead key at the top level
OneKeyBodies == { Put(Targeted, k, val) : k \in LeadKeys, val \in LeadValues }

\* targeted bodies with two spellings of the first name, and of the e-mail address
TwoKeyBodies ==
    { Put(Put(Targeted, k1, Str(Jane)), k2, Str(Ann)) :
        k1 \in Range(FirstNameKeys), k2 \in Range(FirstNameKeys) }
    \cup { Put(Put(Targeted, k1, Str(Mail)), k2, Str(NinaMail)) :
        k1 \in Range(EmailKeys), k2 \in Range(EmailKeys) }

\* nested bundles
Bundles ==
    { EmptyObj,
      Put(Put(EmptyObj, "firstName", Str(Nina)), "email", Str(NinaMail)),
      Put(Put(Put(EmptyObj, "First Name", Str(Nina)), "lname", Str(Doe)), "id", Str(ContactRef)),
      Str(Nina), Arr1(Str(Nina)) }

\* top levels the bundles are combined with
TopLevels ==
    { Targeted,
      Put(EmptyObj, "location_id", Str(universityBankLocationId)),
      Put(Put(Targeted, "firstName", Str(Jane)), "Email", Str(Mail)),
      Put(Put(Put(Put(Targeted, "last_name", Str(Doe)), "phone", Str(Tel)),
          "contact_id", Str(ContactRef)), "contactId", Num(9)) }

BundleBodies ==
    { With(With(With(With(top, "type", type), "form_data", fd), "contact", contact),
           "customFields", custom) :
        top \in TopLevels,
        type \in {Undef, Str(form_submit)},
        fd \in {Undef} \cup Bundles,
        contact \in {Undef, EmptyObj,
                     Put(Put(Put(EmptyObj, "firstName", Str(Nina)), "email", Str(NinaMail)),
                         "id", Str(ContactRef))},
        custom \in {Undef, Put(EmptyObj, "Last Name", Str(Doe))} }

\* a JSON array as the whole body
ArrayBodies == { Arr(NoProps), Arr1(Str(FormId1)) }

Bodies ==
    IdentifierBodies \cup AlternateKeyBodies \cup OneKeyBodies \cup TwoKeyBodies
        \cup BundleBodies \cup ArrayBodies

\* x-signature headers sent with a body: none, empty, the right digest, the
\* digest of a different body, the digest under a different key
Signatures(body) ==
    { NoHeader, EmptyHeader, hmacHex(GHL_WEBHOOK_SECRET, body),
      hmacHex(GHL_WEBHOOK_SECRET, Put(body, "tampered", Bool(TRUE))),
      hmacHex(Str(OtherFormId), body) }

\* new Date().toISOString()
Clock == {Time0, Time1}

\* response.data of a 2xx answer of the import endpoint
ResponseData ==
    { Str(XmlBody), Obj([LeadId |-> Str(LeadRef)]), Obj([id |-> Num(17)]), Null }

\* errors axios.post rejects with
AxiosErrors ==
    { [cause |-> "network", message |-> "getaddrinfo ENOTFOUND import.prod.velocify.com"],
      [cause |-> "status", message |-> "Request failed with status code 500"],
      [cause |-> "timeout", message |-> "timeout of 30000ms exceeded"] }

----------------------------------------------------------------------------
(* State *)

VARIABLES
    pc,               \* "idle", "awaiting" (axios.post pending) or "done" (answered)
    req,              \* the request: [received, body, sig]: the body as parsed,
                      \* req.body as the handler left it, the x-signature header
    ident,            \* what isUniversityBankForm returned or threw
    formData,         \* result of extractFormData (Undef before it ran)
    velocifyPayload,  \* result of transformToVelocifyFormat (no keys before it ran)
    sendCalls,        \* invocations of sendToVelocify for this request
    posts,            \* calls of axios.post for this request
    outbound,         \* form entries of the POST
    outcome,          \* how axios.post settled: "none", "resolved" or the AxiosErrors record
    res               \* the response: [sent, status, json]

vars == <<pc, req, ident, formData, velocifyPayload, sendCalls, posts, outbound, outcome, res>>

NoOutcome == [cause |-> "none", message |-> Absent]
Resolved == [cause |-> "resolved", message |-> Absent]

Fresh ==
    /\ pc = "idle"
    /\ req = [received |-> EmptyObj, body |-> EmptyObj, sig |-> NoHeader]
    /\ ident = "not run"
    /\ formData = Undef
    /\ velocifyPayload = NoProps
    /\ sendCalls = 0
    /\ posts = 0
    /\ outbound = << >>
    /\ outcome = NoOutcome
    /\ res = NoResponse

Init == Fresh

\* a request arrives and the handler runs to its first await or to its response
Webhook ==
    /\ pc = "idle"
    /\ \E body \in Bodies : \E sig \in Signatures(body) : \E now \in Clock :
         \E r \in {webhookHandler(body, sig, now)} :
         /\ pc' = r.pc
         /\ req' = [received |-> body, body |-> r.body, sig |-> sig]
         /\ ident' = r.ident
         /\ formData' = r.formData
         /\ velocifyPayload' = r.velocifyPayload
         /\ sendCalls' = r.sendCalls
         /\ posts' = r.posts
         /\ outbound' = r.outbound
         /\ res' = r.res
    /\ UNCHANGED outcome

\* axios.post resolves (2xx) and the handler answers
AxiosResolves ==
    /\ pc = "awaiting"
    /\ \E data \in ResponseData :
         /\ res' = resolvedResponse(data)
         /\ outcome' = Resolved
         /\ pc' = "done"
    /\ UNCHANGED <<req, ident, formData, velocifyPayload, sendCalls, posts, outbound>>

\* axios.post rejects (network error, non-2xx status, timeout), sendToVelocify
\* rethrows and the catch block of the handler answers
AxiosRejects ==
    /\ pc = "awaiting"
    /\ \E error \in AxiosErrors :
         /\ res' = rejectedResponse(error)
         /\ outcome' = error
         /\ pc' = "done"
    /\ UNCHANGED <<req, ident, formData, velocifyPayload, sendCalls, posts, outbound>>

\* the next request is dispatched with a req / res pair of its own
NextRequest ==
    /\ pc = "done"
    /\ pc' = "idle"
    /\ req' = [received |-> EmptyObj, body |-> EmptyObj, sig |-> NoHeader]
    /\ ident' = "not run"
    /\ formData' = Undef
    /\ velocifyPayload' = NoProps
    /\ sendCalls' = 0
    /\ posts' = 0
    /\ outbound' = << >>
    /\ outcome' = NoOutcome
    /\ res' = NoResponse

Next == Webhook \/ AxiosResolves \/ AxiosRejects \/ NextRequest

Spec == Init /\ [][Next]_vars

\* axios.post settles: it resolves, rejects, or its 30 second timeout fires
FairSpec == Spec /\ WF_vars(AxiosResolves \/ AxiosRejects)

----------------------------------------------------------------------------
(* Properties                                                              *)

\* a request is being served or has been answered
Received == pc # "idle"

\* the x-signature header carries a digest that differs from the expected one
\* (a header sent with an empty value is left aside here: it differs as well,
\* and the handler treats it as no header at all)
SignatureMismatch ==
    /\ req.sig.kind = "hex"
    /\ req.sig # hmacHex(GHL_WEBHOOK_SECRET, req.received)

\* C1 (as claimed): a request carrying an x-signature header that differs from
\* the hex HMAC-SHA256 of the serialized body is answered 401 and never
\* reaches sendToVelocify, whatever form identifiers the payload carries.
C1_MismatchedSignatureRejected ==
    (Received /\ SignatureMismatch)
        => (pc = "done" /\ res.status = 401 /\ sendCalls = 0)

\* C2: a request whose payload the Form Identifier rejects (it returned false)
\* is answered exactly once, with 200 and the 'not targeted' message, and
\* sendToVelocify is never invoked (no outbound POST) during that request.
C2_NotTargetedSkipped ==
    (Received /\ ident = "false")
        => /\ pc = "done"
           /\ res.sent = 1
           /\ res.status = 200
           /\ res.json.message = "Form not targeted for University Bank"
           /\ res.json.message # "Lead successfully sent to Velocify"
           /\ sendCalls = 0
           /\ posts = 0

\* a rejected form was answered although its signature header did not match
C2_Witness ==
    /\ pc = "done"
    /\ ident = "false"
    /\ SignatureMismatch
    /\ res.status = 200

\* the lead the handler extracts from a received body
ExtractedLead(body) == transformToVelocifyFormat(extractFormData(body), Time0)

\* first name, last name and e-mail address of the extracted lead are all ''
IdentityEmpty(body) ==
    /\ ExtractedLead(body).FirstName = EmptyStr
    /\ ExtractedLead(body).LastName = EmptyStr
    /\ ExtractedLead(body).Email = EmptyStr

\* C3 (as claimed): a targeted request that passes the signature step and whose
\* extracted first name, last name and e-mail are all empty is answered 400,
\* and no outbound POST is made for it.
C3_EmptyIdentityRejected ==
    (/\ Received
     /\ ident = "true"
     /\ ~signatureRejected(req.received, req.sig)
     /\ IdentityEmpty(req.received))
        => (posts = 0 /\ (pc = "done" => res.status = 400))

\* axios.post failed: network error, non-2xx status or timeout
ForwardFailed == outcome.cause \in {"network", "status", "timeout"}

\* C4: whenever the outbound call fails (network error, non-2xx status, the
\* 30 second timeout) the request is answered once, with status 500 and a
\* body whose error field is the message of the underlying error; never 200.
C4_ForwardFailureIs500 ==
    ForwardFailed
        => /\ pc = "done"
           /\ res.sent = 1
           /\ res.status = 500
           /\ res.status # 200
           /\ res.json.error = outcome.message
           /\ res.json.error # Absent

\* the outbound call timed out and the request was answered
C4_Witness ==
    /\ pc = "done"
    /\ outcome.cause = "timeout"
    /\ res.json.error = "timeout of 30000ms exceeded"

\* C5 (as claimed): every invocation of sendToVelocify issues exactly one
\* outbound POST, a request issues at most one (no retry after a failure), and
\* a request answered 200 'Lead successfully sent' made exactly one.
C5_ExactlyOnePostPerInvocation ==
    /\ posts = sendCalls
    /\ posts <= 1
    /\ (res.json.message = "Lead successfully sent to Velocify" => posts = 1)

\* the part of C5 that concerns a request: at most one POST, none added after
\* the outbound call settled, exactly one behind a success answer
AtMostOnePostPerRequest ==
    /\ posts <= 1
    /\ sendCalls <= 1
    /\ (outcome.cause # "none" => posts = 1)
    /\ (res.json.message = "Lead successfully sent to Velocify" => posts = 1)

\* v is one of the allow-listed form identifiers
AllowListed(v) == v.t = "str" /\ v.v \in {FormId1, FormId2}

\* the form id as the handler reads it: form_id, or formId when form_id is
\* absent or falsy
HandlerFormId(body) ==
    IF Truthy(Get(body, "form_id")) THEN Get(body, "form_id") ELSE Get(body, "formId")

\* the form name as the handler reads it
HandlerFormName(body) ==
    IF Truthy(Get(body, "form_name")) THEN Get(body, "form_name") ELSE Get(body, "formName")

\* C6 (as claimed): when form_id or formId of the payload is an allow-listed
\* form identifier, isUniversityBankForm returns true, whatever every other
\* field of the payload holds.
C6_EitherKeyAllowListed ==
    (/\ Received
     /\ \/ AllowListed(Get(req.received, "form_id"))
        \/ AllowListed(Get(req.received, "formId")))
        => ident = "true"

\* C6 (amended): when the form id as the handler reads it (form_id, or formId
\* when form_id is absent or falsy) is allow-listed, isUniversityBankForm
\* returns true, whatever the values, types or absence of every other field.
C6_HandlerFormIdAllowListed ==
    (Received /\ AllowListed(HandlerFormId(req.received))) => ident = "true"

\* accepted by formId alone, next to a form title that is not a string
C6_Witness ==
    /\ Received
    /\ ~Truthy(Get(req.received, "form_id"))
    /\ AllowListed(Get(req.received, "formId"))
    /\ Get(req.received, "form_title").t = "num"
    /\ ident = "true"

\* v is a string holding one of the marker phrases, in any letter case
HasMarker(v) ==
    /\ v.t = "str"
    /\ \/ includes(toLowerCase(v.v), PhraseGetStarted)
       \/ includes(toLowerCase(v.v), PhraseUniversityBank)
       \/ includes(toLowerCase(v.v), PhraseScheduleMeeting)

\* neither location key holds the target location
LocationDiffers(body) ==
    /\ ~(Get(body, "location_id").t = "str" /\ Get(body, "location_id").v = universityBankLocationId)
    /\ ~(Get(body, "locationId").t = "str" /\ Get(body, "locationId").v = universityBankLocationId)

\* page_url holds an allow-listed form id (as a substring, or as an element
\* when it is an array)
PageUrlHasFormId(body) ==
    LET url == Get(body, "page_url") IN
    \/ url.t = "str" /\ (includes(url.v, FormId1) \/ includes(url.v, FormId2))
    \/ url.t = "arr" /\ \E k \in DOMAIN url.v : AllowListed(url.v[k])

\* what C7 assumes of a payload
NoIdentifierMatches(body) ==
    /\ LocationDiffers(body)
    /\ ~AllowListed(HandlerFormId(body))
    /\ ~HasMarker(HandlerFormName(body))
    /\ ~HasMarker(Get(body, "form_title"))

StringOrFalsy(v) == v.t = "str" \/ ~Truthy(v)

\* name, title and page URL are strings or falsy: no check can raise
AllStringOrFalsy(body) ==
    /\ StringOrFalsy(HandlerFormName(body))
    /\ StringOrFalsy(Get(body, "form_title"))
    /\ StringOrFalsy(Get(body, "page_url"))

Extracted == DOMAIN velocifyPayload # {}

\* C8 (as claimed): whatever the payload, the extracted lead has first name,
\* last name, e-mail and phone present, each of them a string ('' when nothing
\* was found).
C8_LeadFieldsAreStrings ==
    Extracted =>
        \A k \in {"FirstName", "LastName", "Email", "Phone"} :
            k \in DOMAIN velocifyPayload /\ velocifyPayload[k].t = "str"

\* field names of the POSTed form body
OutboundNames == {outbound[i].name : i \in 1..Len(outbound)}

\* C9 (as claimed): the field names of the outbound body are exactly
\* FirstName, LastName, Email, Phone, LeadSource, Campaign, Comments.
C9_ExactlyTheSevenNames ==
    posts = 1 =>
        OutboundNames = {"FirstName", "LastName", "Email", "Phone",
                         "LeadSource", "Campaign", "Comments"}

\* C9 (amended): for every forwarded lead the outbound body has the same
\* fifteen field names, each once: the seven contract names and Source,
\* Medium, Content, SubmissionDate, ClientIdentifier, FormName, GHLContactId,
\* OriginalSource; whichever source-key spelling produced each value.
C9_FixedFieldNames ==
    posts = 1 =>
        /\ OutboundNames = {"FirstName", "LastName", "Email", "Phone",
                            "LeadSource", "Campaign", "Comments",
                            "Source", "Medium", "Content", "SubmissionDate",
                            "ClientIdentifier", "FormName", "GHLContactId",
                            "OriginalSource"}
        /\ Len(outbound) = 15

\* a lead forwarded with its first name found under the spelling fname and
\* nothing found for the other three fields
C9_Witness ==
    /\ posts = 1
    /\ Get(req.received, "fname") = Str(Jane)
    /\ outbound[1] = [name |-> "FirstName", value |-> Jane]
    /\ outbound[2] = [name |-> "LastName", value |-> << >>]

\* the first truthy value under the spellings `keys` (in order) of object o
FirstFound(o, keys) ==
    LET found == {i \in 1..Len(keys) : Truthy(Get(o, keys[i]))} IN
    IF found = {} THEN EmptyStr
    ELSE Get(o, keys[CHOOSE i \in found : \A j \in found : i <= j])

\* the value C10 describes: top level first, then the form-data bundle, then
\* the contact bundle
TopLevelFirst(body, keys) ==
    IF Truthy(FirstFound(body, keys)) THEN FirstFound(body, keys)
    ELSE IF Truthy(FirstFound(Get(body, "form_data"), keys))
         THEN FirstFound(Get(body, "form_data"), keys)
    ELSE FirstFound(Get(body, "contact"), keys)

\* blank strings are stored as ''
Cleaned(v) == IF v.t = "str" /\ TrimIsEmpty(v.v) THEN EmptyStr ELSE v

SameValue(a, b) == a.t = b.t /\ a.v = b.v

\* C10 (as claimed, its last sentence): a value found under a known spelling
\* at the top level of the payload is the extracted value of its field; no
\* nested bundle overrides it.
C10_TopLevelNeverOverridden ==
    Extracted =>
        /\ Truthy(FirstFound(req.received, FirstNameKeys))
              => SameValue(velocifyPayload.FirstName, Cleaned(FirstFound(req.received, FirstNameKeys)))
        /\ Truthy(FirstFound(req.received, LastNameKeys))
              => SameValue(velocifyPayload.LastName, Cleaned(FirstFound(req.received, LastNameKeys)))
        /\ Truthy(FirstFound(req.received, EmailKeys))
              => SameValue(velocifyPayload.Email, Cleaned(FirstFound(req.received, EmailKeys)))
        /\ Truthy(FirstFound(req.received, PhoneKeys))
              => SameValue(velocifyPayload.Phone, Cleaned(FirstFound(req.received, PhoneKeys)))

\* the whole order C10 describes: each lead field is the first non-empty value
\* under a known spelling at the top level; the form-data bundle is used only
\* when the top level has none, the contact bundle only when that has none.
TopLevelThenBundles ==
    Extracted =>
        /\ SameValue(velocifyPayload.FirstName, Cleaned(TopLevelFirst(req.received, FirstNameKeys)))
        /\ SameValue(velocifyPayload.LastName, Cleaned(TopLevelFirst(req.received, LastNameKeys)))
        /\ SameValue(velocifyPayload.Email, Cleaned(TopLevelFirst(req.received, EmailKeys)))
        /\ SameValue(velocifyPayload.Phone, Cleaned(TopLevelFirst(req.received, PhoneKeys)))

\* the handler is at one of its positions: nothing it called left it elsewhere
HandlerInControl == pc \in {"idle", "awaiting", "done"}

\* the response of an answered request is structured
StructuredResponse ==
    /\ res.status \in {200, 400, 401, 500}
    /\ res.json.message # Absent \/ res.json.error # Absent

\* a request is answered exactly when its handler is done, and then once
AnsweredOnce ==
    /\ res.sent <= 1
    /\ (pc = "done") <=> (res.sent = 1)
    /\ res.sent = 1 => StructuredResponse

\* C11: every webhook request, whatever the shape of its payload (form_name or
\* form_title of a non-string type included) and whatever the downstream
\* outcome, eventually receives exactly one response, with a status among
\* 200, 400, 401, 500 and a body carrying a message or an error; no fault
\* raised in the identifier, extractor or forwarder escapes the handler, and an
\* answered request is not answered again.
C11_EveryRequestAnsweredOnce ==
    /\ [](HandlerInControl /\ AnsweredOnce)
    /\ [][res.sent = 1 => (pc' = "idle" /\ res'.sent = 0)]_vars
    /\ (Received ~> (pc = "done" /\ res.sent = 1))

\* a request whose form_title is not a string was answered: the TypeError the
\* Form Identifier raised became a 500 with the error's message
C11_Witness ==
    /\ pc = "done"
    /\ Truthy(Get(req.received, "form_title"))
    /\ Get(req.received, "form_title").t # "str"
    /\ ident = "payload.form_title.toLowerCase is not a function"
    /\ res.sent = 1
    /\ res.status = 500
    /\ res.json.error = "payload.form_title.toLowerCase is not a function"

=============================================================================
